---- MODULE Spec2Model ----
(***************************************************************************)
(* Chi2ContingencyImputer of src/general_settings.py (lines 216-277).      *)
(*                                                                         *)
(* A data frame is a record                                                *)
(*     [columns : sequence of column names,                                *)
(*      index   : sequence of row labels,                                  *)
(*      rows    : sequence of functions  column name -> value]             *)
(* Every column has dtype object; a cell holds a category label or the     *)
(* missing marker NaN.  Two labels per column are modelled, so that every  *)
(* contingency table is at most 2 x 2 and the chi-square test has 0 or 1   *)
(* degrees of freedom: there the p-value is a strictly decreasing function *)
(* of the statistic, and p-values are compared exactly by comparing the    *)
(* statistics as fractions (the rounding of the floating-point p-values is *)
(* not modelled).                                                          *)
(*                                                                         *)
(* The caller builds a frame row by row and passes it to fit or transform: *)
(* a frame of up to MaxTrainRows rows for the first fit, frames of up to   *)
(* MaxTestRows rows afterwards (for transform and for another fit).  The   *)
(* frame of a fit may be passed to transform as it is.  Building a frame   *)
(* forgets the record of the last call (X_pre, Xc, last).                  *)
(***************************************************************************)
EXTENDS Integers, Sequences, FiniteSets, TLC

\* Largest number of rows of the frame the caller builds for the first fit.
MaxTrainRows == 3

\* Largest number of rows of a frame the caller builds for a fitted imputer.
MaxTestRows == 1

NaN == "NaN"
Labels == {"a", "b"}

Names == {"A", "B", "C"}

\* Column orders of the caller's frames.
ColumnOrders == {<<"C", "A", "B">>}

\* Constructor arguments: cols_to_ignore=None, [] and ["C"].
IgnoreOptions ==
    {[given |-> FALSE, cols |-> {}],
     [given |-> TRUE, cols |-> {}],
     [given |-> TRUE, cols |-> {"C"}]}

Row(a, b, c) == [n \in Names |-> CASE n = "A" -> a [] n = "B" -> b [] OTHER -> c]

\* Rows the caller puts into its frames.
RowPool ==
    {Row("a", "a", "a"), Row("b", "b", "b"), Row("b", "a", "b"),
     Row("a", NaN, NaN), Row(NaN, NaN, NaN)}

VARIABLES
    cols_to_ignore,   \* self.cols_to_ignore
    fitted,           \* self has the attributes related_vars_ and all_modes_
    related_vars_,    \* self.related_vars_ : sequence of <<var1, var2>>
    all_modes_,       \* self.all_modes_ : sequence of [var1, var2, modes]
    fit_X,            \* the frame given to the most recent fit that returned
    refitted,         \* a fit of the fitted imputer has changed its attributes
    X,                \* the caller's frame (the argument of fit and transform)
    X_pre,            \* the caller's frame as it was when the last call began
    Xc,               \* the frame the last transform returned
    last              \* the last call: "none", "fit", "fit_raised",
                      \* "transform", "transform_raised"

vars == <<cols_to_ignore, fitted, related_vars_, all_modes_, fit_X, refitted, X, X_pre, Xc, last>>

----------------------------------------------------------------------------
(* Orders of labels and names (Python's string order). *)

LabelRank(v) == CASE v = "a" -> 1 [] v = "b" -> 2 [] OTHER -> 3

NameRank(c) == CASE c = "A" -> 1 [] c = "B" -> 2 [] OTHER -> 3

Range(s) == {s[i] : i \in DOMAIN s}

RECURSIVE SortedNames(_)
SortedNames(S) ==
    IF S = {} THEN <<>>
    ELSE LET m == CHOOSE x \in S : \A y \in S : NameRank(x) <= NameRank(y)
         IN  <<m>> \o SortedNames(S \ {m})

RECURSIVE SortedValues(_)
SortedValues(S) ==
    IF S = {} THEN <<>>
    ELSE LET m == CHOOSE x \in S : \A y \in S : LabelRank(x) <= LabelRank(y)
         IN  <<m>> \o SortedValues(S \ {m})

RECURSIVE Flatten(_)
Flatten(ss) == IF ss = <<>> THEN <<>> ELSE Head(ss) \o Flatten(Tail(ss))

NoFrame == [columns |-> <<>>, index |-> <<>>, rows |-> <<>>]

NRows(F) == Len(F.rows)

----------------------------------------------------------------------------
(* fit: the most related variables *)

\* X.select_dtypes(include="object").columns.tolist(); np.setdiff1d sorts.
CatFeatures(F, ignore) ==
    IF ignore.given THEN SortedNames(Range(F.columns) \ ignore.cols)
    ELSE F.columns

\* list(product(cat_features, cat_features)) without the pairs var1 == var2.
product(feats) ==
    LET n == Len(feats)
        all == [k \in 1..(n * n) |-> <<feats[((k - 1) \div n) + 1], feats[((k - 1) % n) + 1]>>]
    IN  SelectSeq(all, LAMBDA p : p[1] # p[2])

\* pd.crosstab(X[var1], X[var2]): the rows with both entries present.
crosstab(F, var1, var2) ==
    LET both == {i \in 1..NRows(F) : F.rows[i][var1] # NaN /\ F.rows[i][var2] # NaN}
        idx == {F.rows[i][var1] : i \in both}
        cols == {F.rows[i][var2] : i \in both}
    IN  [index |-> idx, columns |-> cols,
         count |-> [c \in idx \X cols |->
                      Cardinality({i \in both : F.rows[i][var1] = c[1] /\ F.rows[i][var2] = c[2]})]]

Abs(x) == IF x < 0 THEN -x ELSE x

Max0(x) == IF x < 0 THEN 0 ELSE x

\* A test that gives p = 1 for an empty table instead of raising.
chi2_contingency_no_raise(ct) ==
    [raises |-> FALSE, dof |-> 0, num |-> 0, den |-> 1]

\* stats.chi2_contingency(contingency): raises ValueError on an empty table;
\* dof = 0 gives chi2 = 0, p = 1; dof = 1 uses Yates' correction, where
\*   chi2 = max(2|ad - bc| - n, 0)^2 * n / (4 * r1 * r2 * c1 * c2).
\* The result is the statistic as the fraction num / den.
chi2_contingency(ct) ==
    IF ct.index = {} \/ ct.columns = {}
    THEN [raises |-> TRUE, dof |-> 0, num |-> 0, den |-> 1]
    ELSE LET dof == (Cardinality(ct.index) - 1) * (Cardinality(ct.columns) - 1)
         IN  IF dof = 0
             THEN [raises |-> FALSE, dof |-> 0, num |-> 0, den |-> 1]
             ELSE LET a == ct.count[<<"a", "a">>]
                      b == ct.count[<<"a", "b">>]
                      c == ct.count[<<"b", "a">>]
                      d == ct.count[<<"b", "b">>]
                      n == a + b + c + d
                      m == Max0(2 * Abs(a * d - b * c) - n)
                  IN  [raises |-> FALSE, dof |-> dof,
                       num |-> m * m * n,
                       den |-> 4 * (a + b) * (c + d) * (a + c) * (b + d)]

\* result.pvalue of one is smaller than that of the other.
PvalueLess(p, q) == p.num * q.den > q.num * p.den

\* The loop of _calculate_most_related_variables: one result per pair.
Results(F, feats) ==
    LET pairs == product(feats)
    IN  [k \in 1..Len(pairs) |->
            [var1 |-> pairs[k][1], var2 |-> pairs[k][2],
             pvalue |-> chi2_contingency(crosstab(F, pairs[k][1], pairs[k][2]))]]

\* The last position with the minimal p-value.
IdxMinLast(results, v) ==
    LET grp == {k \in 1..Len(results) : results[k].var1 = v}
        mins == {k \in grp : \A j \in grp : ~PvalueLess(results[j].pvalue, results[k].pvalue)}
    IN  CHOOSE k \in mins : \A j \in mins : j <= k

\* Series.idxmin of one group: the first position with the minimal p-value.
IdxMin(results, v) ==
    LET grp == {k \in 1..Len(results) : results[k].var1 = v}
        mins == {k \in grp : \A j \in grp : ~PvalueLess(results[j].pvalue, results[k].pvalue)}
    IN  CHOOSE k \in mins : \A j \in mins : k <= j

\* groupby("var1")["pvalue"].idxmin(), then iloc[min_ids, :2].to_numpy().
_calculate_most_related_variables(F, feats) ==
    LET results == Results(F, feats)
        keys == SortedNames({results[k].var1 : k \in 1..Len(results)})
    IN  [g \in 1..Len(keys) |->
            LET k == IdxMin(results, keys[g])
            IN  <<results[k].var1, results[k].var2>>]

\* chi2_contingency raises for some pair.
FitRaisesOn(F, feats) ==
    LET results == Results(F, feats)
    IN  \E k \in 1..Len(results) : results[k].pvalue.raises

----------------------------------------------------------------------------
(* fit: the modes *)

ModeName(v) == CASE v = "A" -> "Mode_A" [] v = "B" -> "Mode_B" [] OTHER -> "Mode_C"

\* The group taken by the values of var1 itself.
GroupByTarget(F, var1, var2, key) ==
    LET pos == SelectSeq([i \in 1..NRows(F) |-> i], LAMBDA i : F.rows[i][var1] = key)
    IN  [j \in 1..Len(pos) |-> F.rows[pos[j]][var1]]

\* The values of column var1 in the rows whose var2 entry is key, in row order.
Group(F, var1, var2, key) ==
    LET pos == SelectSeq([i \in 1..NRows(F) |-> i], LAMBDA i : F.rows[i][var2] = key)
    IN  [j \in 1..Len(pos) |-> F.rows[pos[j]][var1]]

Count(g, v) == Cardinality({j \in 1..Len(g) : g[j] = v})

\* The present values with the highest count (missing values are dropped).
MostFrequent(g) ==
    LET present == {g[j] : j \in 1..Len(g)} \ {NaN}
    IN  {v \in present : \A w \in present : Count(g, w) <= Count(g, v)}

\* The most frequent values in the order of their first occurrence.
SeriesModeFirstSeen(g) ==
    LET mf == MostFrequent(g)
        first(v) == CHOOSE j \in 1..Len(g) : g[j] = v /\ \A i \in 1..(j - 1) : g[i] # v
        pos == SelectSeq([j \in 1..Len(g) |-> j], LAMBDA j : g[j] \in mf /\ first(g[j]) = j)
    IN  [j \in 1..Len(pos) |-> g[pos[j]]]

\* Series.mode(): the most frequent present values, sorted.
SeriesMode(g) == SortedValues(MostFrequent(g))

\* lambda g: g.mode().iloc[0] if not g.mode().empty else None
AggMode(g) == IF SeriesMode(g) = <<>> THEN NaN ELSE SeriesMode(g)[1]

\* groupby with dropna=True: no group for the missing value.
ModesFrameDropna(F, var1, var2) ==
    LET keys == SortedValues({F.rows[i][var2] : i \in 1..NRows(F)} \ {NaN})
    IN  [k \in 1..Len(keys) |-> [key |-> keys[k], mode |-> AggMode(Group(F, var1, var2, keys[k]))]]

\* X.groupby(var2, dropna=False)[var1].agg(...).reset_index().rename(...):
\* one row per value of var2 (the missing value too), keys sorted.
ModesFrame(F, var1, var2) ==
    LET keys == SortedValues({F.rows[i][var2] : i \in 1..NRows(F)})
    IN  [k \in 1..Len(keys) |-> [key |-> keys[k], mode |-> AggMode(Group(F, var1, var2, keys[k]))]]

_get_all_modes(F, related_vars) ==
    [k \in 1..Len(related_vars) |->
        [var1 |-> related_vars[k][1], var2 |-> related_vars[k][2],
         modes |-> ModesFrame(F, related_vars[k][1], related_vars[k][2])]]

\* fit: the new attributes of self.
FitState(F, ignore) ==
    LET related_vars == _calculate_most_related_variables(F, CatFeatures(F, ignore))
    IN  [related_vars_ |-> related_vars, all_modes_ |-> _get_all_modes(F, related_vars)]

----------------------------------------------------------------------------
(* transform *)

\* how="inner": a left row without a matching key is dropped.
MergeInner(F, modes, var1, var2) ==
    LET mc == ModeName(var1)
        ext(r, v) == [c \in (DOMAIN r) \cup {mc} |-> IF c = mc THEN v ELSE r[c]]
        matches(r) == SelectSeq(modes, LAMBDA m : m.key = r[var2])
        joined(r) == [j \in 1..Len(matches(r)) |-> ext(r, matches(r)[j].mode)]
        rows == Flatten([i \in 1..NRows(F) |-> joined(F.rows[i])])
    IN  [columns |-> F.columns \o <<mc>>,
         index |-> [i \in 1..Len(rows) |-> i - 1],
         rows |-> rows]

\* Xc.merge(modes, on=var2, how="left"): for every left row in order, one row
\* per matching row of modes (missing keys match each other), or one row with a
\* missing Mode entry; the index of the result is 0..n-1.
MergeLeft(F, modes, var1, var2) ==
    LET mc == ModeName(var1)
        ext(r, v) == [c \in (DOMAIN r) \cup {mc} |-> IF c = mc THEN v ELSE r[c]]
        matches(r) == SelectSeq(modes, LAMBDA m : m.key = r[var2])
        joined(r) == IF matches(r) = <<>> THEN <<ext(r, NaN)>>
                     ELSE [j \in 1..Len(matches(r)) |-> ext(r, matches(r)[j].mode)]
        rows == Flatten([i \in 1..NRows(F) |-> joined(F.rows[i])])
    IN  [columns |-> F.columns \o <<mc>>,
         index |-> [i \in 1..Len(rows) |-> i - 1],
         rows |-> rows]

\* Xc[var1] = Xc[f"Mode_{var1}"]: the column is overwritten.
FillNaOverwrite(F, var1) ==
    LET mc == ModeName(var1)
    IN  [F EXCEPT !.rows = [i \in 1..NRows(F) |-> [F.rows[i] EXCEPT ![var1] = F.rows[i][mc]]]]

\* Xc[var1] = Xc[var1].fillna(Xc[f"Mode_{var1}"])
FillNa(F, var1) ==
    LET mc == ModeName(var1)
    IN  [F EXCEPT !.rows = [i \in 1..NRows(F) |->
            [F.rows[i] EXCEPT ![var1] = IF @ = NaN THEN F.rows[i][mc] ELSE @]]]

\* Xc.drop(f"Mode_{var1}", axis=1)
Drop(F, mc) ==
    [F EXCEPT !.columns = SelectSeq(F.columns, LAMBDA c : c # mc),
              !.rows = [i \in 1..NRows(F) |-> [c \in (DOMAIN F.rows[i]) \ {mc} |-> F.rows[i][c]]]]

\* An iteration that works on the caller's frame in place.
ImputeStepInPlace(w, entry) ==
    LET F == Drop(FillNa(MergeLeft(w.Xc, entry.modes, entry.var1, entry.var2), entry.var1),
                  ModeName(entry.var1))
    IN  [X |-> [F EXCEPT !.index = w.X.index], Xc |-> F]

\* An iteration that joins on the driver column of the caller's frame.
ImputeStepSinglePass(w, entry) ==
    LET keyed == [w.Xc EXCEPT !.rows = [i \in 1..NRows(w.Xc) |->
                    [w.Xc.rows[i] EXCEPT ![entry.var2] = w.X.rows[i][entry.var2]]]]
        F == Drop(FillNa(MergeLeft(keyed, entry.modes, entry.var1, entry.var2), entry.var1),
                  ModeName(entry.var1))
    IN  [X |-> w.X,
         Xc |-> [F EXCEPT !.rows = [i \in 1..NRows(F) |->
                    [F.rows[i] EXCEPT ![entry.var2] = w.Xc.rows[i][entry.var2]]]]]

\* One iteration of the loop of transform.  w.X is the caller's frame, w.Xc
\* the local frame.
ImputeStep(w, entry) ==
    [X |-> w.X,
     Xc |-> Drop(FillNa(MergeLeft(w.Xc, entry.modes, entry.var1, entry.var2), entry.var1),
                 ModeName(entry.var1))]

RECURSIVE ImputeLoop(_, _)
ImputeLoop(w, entries) ==
    IF entries = <<>> THEN w
    ELSE ImputeLoop(ImputeStep(w, Head(entries)), Tail(entries))

\* A transform that pops the entries off self.all_modes_ as it applies them.
TransformCallConsuming(self, F) ==
    LET w == ImputeLoop([X |-> F, Xc |-> F], self.all_modes_)
    IN  [self |-> [self EXCEPT !.all_modes_ = <<>>],
         X |-> w.X,
         ret |-> [w.Xc EXCEPT !.index = w.X.index]]

\* transform(X): what it leaves in self, in the caller's frame, and returns.
TransformCall(self, F) ==
    LET w == ImputeLoop([X |-> F, Xc |-> F], self.all_modes_)
    IN  [self |-> self,
         X |-> w.X,
         ret |-> [w.Xc EXCEPT !.index = w.X.index]]

----------------------------------------------------------------------------
(* The caller, and the calls *)

Self == [related_vars_ |-> related_vars_, all_modes_ |-> all_modes_]

NoCall == /\ X_pre' = NoFrame
          /\ Xc' = NoFrame
          /\ last' = "none"

Init ==
    /\ cols_to_ignore \in IgnoreOptions
    /\ fitted = FALSE
    /\ related_vars_ = <<>>
    /\ all_modes_ = <<>>
    /\ fit_X = NoFrame
    /\ refitted = FALSE
    /\ X \in {[columns |-> co, index |-> <<>>, rows |-> <<>>] : co \in ColumnOrders}
    /\ X_pre = NoFrame
    /\ Xc = NoFrame
    /\ last = "none"

\* The caller starts a new frame.
NewFrame ==
    /\ X.rows # <<>>
    /\ \E co \in ColumnOrders : X' = [columns |-> co, index |-> <<>>, rows |-> <<>>]
    /\ NoCall
    /\ UNCHANGED <<cols_to_ignore, fitted, related_vars_, all_modes_, fit_X, refitted>>

\* The caller appends a row to its frame; the k-th row gets the label 2k.
AppendRow ==
    /\ NRows(X) < (IF fitted THEN MaxTestRows ELSE MaxTrainRows)
    /\ \E r \in RowPool :
          X' = [X EXCEPT !.rows = Append(@, r),
                         !.index = Append(@, 2 * (NRows(X) + 1))]
    /\ NoCall
    /\ UNCHANGED <<cols_to_ignore, fitted, related_vars_, all_modes_, fit_X, refitted>>

fit ==
    /\ ~FitRaisesOn(X, CatFeatures(X, cols_to_ignore))
    /\ LET s == FitState(X, cols_to_ignore)
       IN  /\ related_vars_' = s.related_vars_
           /\ all_modes_' = s.all_modes_
           /\ refitted' = (refitted \/ (fitted /\ s # Self))
    /\ fitted' = TRUE
    /\ fit_X' = X
    /\ X_pre' = X
    /\ Xc' = NoFrame
    /\ last' = "fit"
    /\ UNCHANGED <<cols_to_ignore, X>>

\* chi2_contingency raises ValueError before fit assigns anything.
FitRaises ==
    /\ FitRaisesOn(X, CatFeatures(X, cols_to_ignore))
    /\ X_pre' = X
    /\ Xc' = NoFrame
    /\ last' = "fit_raised"
    /\ UNCHANGED <<cols_to_ignore, fitted, related_vars_, all_modes_, fit_X, refitted, X>>

transform ==
    /\ fitted
    /\ LET t == TransformCall(Self, X)
       IN  /\ related_vars_' = t.self.related_vars_
           /\ all_modes_' = t.self.all_modes_
           /\ X' = t.X
           /\ Xc' = t.ret
    /\ X_pre' = X
    /\ last' = "transform"
    /\ UNCHANGED <<cols_to_ignore, fitted, fit_X, refitted>>

\* self.all_modes_ does not exist: AttributeError.
TransformRaises ==
    /\ ~fitted
    /\ X_pre' = X
    /\ Xc' = NoFrame
    /\ last' = "transform_raised"
    /\ UNCHANGED <<cols_to_ignore, fitted, related_vars_, all_modes_, fit_X, refitted, X>>

Next ==
    \/ NewFrame
    \/ AppendRow
    \/ fit
    \/ FitRaises
    \/ transform
    \/ TransformRaises

Spec == Init /\ [][Next]_vars

----------------------------------------------------------------------------
(* What the properties speak of: the frame of the last fit, the stored     *)
(* pairs, and the frames of the last transform.                            *)

\* The columns fit considers: the frame's columns without the ignored ones.
Considered(F) ==
    IF cols_to_ignore.given THEN Range(F.columns) \ cols_to_ignore.cols
    ELSE Range(F.columns)

PositionIn(seq, x) == CHOOSE i \in 1..Len(seq) : seq[i] = x

\* The considered columns in the order of the frame's columns.
TableOrder(F) == SelectSeq(F.columns, LAMBDA c : c \in Considered(F))

\* The order in which fit generates the pairs.
GenerationOrder(F) ==
    IF cols_to_ignore.given THEN SortedNames(Considered(F)) ELSE F.columns

\* The test of the pair (A, B) on the frame of the last fit.
PairTest(A, B) == chi2_contingency(crosstab(fit_X, A, B))

SamePvalue(p, q) == ~PvalueLess(p, q) /\ ~PvalueLess(q, p)

\* The present values of column c of F.
PresentValues(F, c) == {F.rows[i][c] : i \in 1..NRows(F)} \ {NaN}

\* A or B has fewer than 2 distinct present values in F.
Degenerate(F, A, B) ==
    \/ Cardinality(PresentValues(F, A)) < 2
    \/ Cardinality(PresentValues(F, B)) < 2

\* Some row of F has both A and B present.
ShareRow(F, A, B) ==
    \E i \in 1..NRows(F) : F.rows[i][A] # NaN /\ F.rows[i][B] # NaN

\* The positions of the stored pairs whose target is A.
EntriesOf(A) == {k \in 1..Len(related_vars_) : related_vars_[k][1] = A}

\* Every considered column has one stored pair; its driver has the minimal
\* p-value, and among the drivers with that p-value it is the first in order.
DriversAreFirstMinimal(order) ==
    \A A \in Considered(fit_X) :
        /\ Cardinality(EntriesOf(A)) = 1
        /\ \A k \in EntriesOf(A) :
              LET B == related_vars_[k][2]
              IN  /\ B \in Considered(fit_X) \ {A}
                  /\ \A B2 \in Considered(fit_X) \ {A} :
                        /\ ~PvalueLess(PairTest(A, B2), PairTest(A, B))
                        /\ SamePvalue(PairTest(A, B2), PairTest(A, B))
                              => PositionIn(order, B) <= PositionIn(order, B2)

\* C7 as amended: the selected driver of A has the minimal p-value, and on a
\* tie it is the first in the pair-generation order, which is the frame's
\* column order when cols_to_ignore is None and the sorted order of the names
\* when cols_to_ignore is given.
C7_DriverFirstInGenerationOrder ==
    fitted => DriversAreFirstMinimal(GenerationOrder(fit_X))

\* C7 as stated: on a tie the selected driver is the first in the frame's
\* column order, also when cols_to_ignore is given.
C7_DriverFirstInTableOrder ==
    fitted => DriversAreFirstMinimal(TableOrder(fit_X))

\* A fit with cols_to_ignore given: one target has a driver with a strictly
\* smaller p-value than its other candidate, another has two tied candidates
\* that the sorted order and the frame's order rank differently.
C7_Witness ==
    /\ fitted
    /\ cols_to_ignore.given
    /\ \E k \in 1..Len(related_vars_) :
          \E B2 \in Considered(fit_X) \ {related_vars_[k][1]} :
             PvalueLess(PairTest(related_vars_[k][1], related_vars_[k][2]),
                        PairTest(related_vars_[k][1], B2))
    /\ \E k \in 1..Len(related_vars_) :
          \E B2 \in Considered(fit_X) \ {related_vars_[k][1], related_vars_[k][2]} :
             /\ SamePvalue(PairTest(related_vars_[k][1], related_vars_[k][2]),
                           PairTest(related_vars_[k][1], B2))
             /\ PositionIn(TableOrder(fit_X), B2)
                   < PositionIn(TableOrder(fit_X), related_vars_[k][2])

----------------------------------------------------------------------------
\* The rows of the last fit's frame whose D entry is d.
FitRowsWith(D, d) == {i \in 1..NRows(fit_X) : fit_X.rows[i][D] = d}

FitCount(T, D, d, v) == Cardinality({i \in FitRowsWith(D, d) : fit_X.rows[i][T] = v})

\* The most frequent present values of T among the fit rows with D = d.
FitModes(T, D, d) ==
    {v \in Labels : /\ FitCount(T, D, d, v) > 0
                    /\ \A w \in Labels : FitCount(T, D, d, w) <= FitCount(T, D, d, v)}

\* The first fit row with D = d and T = v.
FirstRow(T, D, d, v) ==
    CHOOSE i \in FitRowsWith(D, d) :
        /\ fit_X.rows[i][T] = v
        /\ \A j \in FitRowsWith(D, d) : fit_X.rows[j][T] = v => i <= j

\* C8 as amended: when several present target values are tied for the highest
\* frequency in one driver-value group, the stored value is the smallest of
\* them in the sort order of the values.
C8_ModeTieSmallestValue ==
    fitted =>
        \A k \in 1..Len(all_modes_) :
            \A m \in 1..Len(all_modes_[k].modes) :
                LET e == all_modes_[k]
                    tied == FitModes(e.var1, e.var2, e.modes[m].key)
                IN  tied # {} =>
                        /\ e.modes[m].mode \in tied
                        /\ \A w \in tied : LabelRank(e.modes[m].mode) <= LabelRank(w)

\* C8 as stated: the stored value is the tied value that occurs first in the
\* row order of the group.
C8_ModeTieFirstInRowOrder ==
    fitted =>
        \A k \in 1..Len(all_modes_) :
            \A m \in 1..Len(all_modes_[k].modes) :
                LET e == all_modes_[k]
                    tied == FitModes(e.var1, e.var2, e.modes[m].key)
                IN  tied # {} =>
                        /\ e.modes[m].mode \in tied
                        /\ \A w \in tied :
                              FirstRow(e.var1, e.var2, e.modes[m].key, e.modes[m].mode)
                                 <= FirstRow(e.var1, e.var2, e.modes[m].key, w)

\* A stored group with two tied values whose first in row order is not the
\* smallest.
C8_Witness ==
    /\ fitted
    /\ \E k \in 1..Len(all_modes_) :
          \E m \in 1..Len(all_modes_[k].modes) :
             LET e == all_modes_[k]
                 tied == FitModes(e.var1, e.var2, e.modes[m].key)
             IN  /\ Cardinality(tied) = 2
                 /\ \E w \in tied :
                       /\ LabelRank(e.modes[m].mode) < LabelRank(w)
                       /\ FirstRow(e.var1, e.var2, e.modes[m].key, w)
                             < FirstRow(e.var1, e.var2, e.modes[m].key, e.modes[m].mode)

----------------------------------------------------------------------------
\* The last call was a fit of the frame X_pre.
FitReturned == last = "fit"

\* C9 as amended: a degenerate pair is not excluded.  fit raises (ValueError
\* of the test) exactly when two considered columns share no row with both
\* entries present; otherwise it completes, a degenerate pair takes part in
\* the choice with p-value 1 (statistic 0), and every considered column, also
\* one whose candidate pairs are all degenerate, has a stored pair and ModeMap.
C9_DegeneratePairsTakePart ==
    /\ last = "fit_raised" =>
          \E A \in Considered(X_pre) : \E B \in Considered(X_pre) \ {A} : ~ShareRow(X_pre, A, B)
    /\ FitReturned =>
          /\ \A A \in Considered(fit_X) : \A B \in Considered(fit_X) \ {A} :
                /\ ShareRow(fit_X, A, B)
                /\ Degenerate(fit_X, A, B) => PairTest(A, B).num = 0
          /\ \A A \in Considered(fit_X) :
                \E k \in 1..Len(all_modes_) :
                   /\ related_vars_[k][1] = A
                   /\ all_modes_[k].var1 = A
                   /\ all_modes_[k].var2 = related_vars_[k][2]
                   /\ all_modes_[k].modes # <<>>

\* C9 as stated, for a fit that completes: a degenerate pair is excluded from
\* the choice, so no stored pair is degenerate, and a column whose candidate
\* pairs are all degenerate has no stored pair and no ModeMap.
C9_DegeneratePairsExcluded ==
    fitted =>
        /\ \A k \in 1..Len(related_vars_) :
              ~Degenerate(fit_X, related_vars_[k][1], related_vars_[k][2])
        /\ \A k \in 1..Len(all_modes_) :
              ~Degenerate(fit_X, all_modes_[k].var1, all_modes_[k].var2)

\* A fit returned for a frame in which every candidate pair of some column is
\* degenerate, and that column has a stored pair.
C9_Witness ==
    /\ FitReturned
    /\ \E k \in 1..Len(related_vars_) :
          \A B \in Considered(fit_X) \ {related_vars_[k][1]} :
             Degenerate(fit_X, related_vars_[k][1], B)

----------------------------------------------------------------------------
\* The last call was a transform of the frame X_pre that returned Xc.
TransformReturned == last = "transform"

\* The value the ModeMap modes gives for the driver value d (missing if d is
\* no key).
Lookup(modes, d) ==
    IF \E m \in 1..Len(modes) : modes[m].key = d
    THEN modes[CHOOSE m \in 1..Len(modes) : modes[m].key = d].mode
    ELSE NaN

HasKey(modes, d) == \E m \in 1..Len(modes) : modes[m].key = d

\* The driver of pair k was a target of an earlier pair of the same call.
DriverWasTarget(k) == \E j \in 1..(k - 1) : all_modes_[j].var1 = all_modes_[k].var2

\* The driver value of row i when pair k is applied: the value of the returned
\* frame if the driver column was a target of an earlier pair, else the value
\* of the input.
DriverAtLookup(k, i) ==
    IF DriverWasTarget(k) THEN Xc.rows[i][all_modes_[k].var2]
    ELSE X_pre.rows[i][all_modes_[k].var2]

\* The driver value of row i in the input of the call.
DriverInInput(k, i) == X_pre.rows[i][all_modes_[k].var2]

\* Row i, whose target entry of pair k is missing in the input, is filled for
\* the driver value d as the fit frame says: with a most frequent present
\* target value of the fit rows having d, which is what the ModeMap holds for
\* d; and left missing if d was not seen or all those fit rows miss the target.
FilledFor(k, i, d) ==
    LET e == all_modes_[k]
        out == Xc.rows[i][e.var1]
    IN  /\ HasKey(e.modes, d) <=> FitRowsWith(e.var2, d) # {}
        /\ out = Lookup(e.modes, d)
        /\ IF FitModes(e.var1, e.var2, d) = {} THEN out = NaN
           ELSE out \in FitModes(e.var1, e.var2, d)

MissingTargets(k) == {i \in 1..NRows(X_pre) : X_pre.rows[i][all_modes_[k].var1] = NaN}

\* C1 as amended: a missing target entry is filled by the driver value the row
\* has when the pair is applied (the input value, or the value filled earlier
\* in the same call): with the most frequent present target value of the fit
\* rows having that driver value, and left missing when that driver value was
\* not seen in fit or all fit rows with it miss the target.
C1_FillFromDriverAtLookup ==
    TransformReturned =>
        \A k \in 1..Len(all_modes_) : \A i \in MissingTargets(k) :
            FilledFor(k, i, DriverAtLookup(k, i))

\* C1 as stated: the fill is decided by the driver value of the row of the
\* frame passed to transform.
C1_FillFromDriverInInput ==
    TransformReturned =>
        \A k \in 1..Len(all_modes_) : \A i \in MissingTargets(k) :
            FilledFor(k, i, DriverInInput(k, i))

\* A transform that filled one missing target from a seen driver value and left
\* another missing target unfilled.
C1_Witness ==
    /\ TransformReturned
    /\ \E k \in 1..Len(all_modes_) : \E i \in MissingTargets(k) :
          /\ DriverAtLookup(k, i) # NaN
          /\ Xc.rows[i][all_modes_[k].var1] # NaN
    /\ \E k \in 1..Len(all_modes_) : \E i \in MissingTargets(k) :
          Xc.rows[i][all_modes_[k].var1] = NaN

----------------------------------------------------------------------------
\* C2 as amended: imputation in one transform call is sequential.  The pairs
\* are applied in the stored order, and the driver value used for a row is the
\* value D has in the working copy then: a D entry that was missing in the
\* input and was filled earlier in the same call is used to fill T; every
\* other lookup uses the value D had in the input.
C2_FilledDriverIsUsed ==
    TransformReturned =>
        \A k \in 1..Len(all_modes_) : \A i \in MissingTargets(k) :
            LET e == all_modes_[k]
            IN  IF DriverWasTarget(k) /\ X_pre.rows[i][e.var2] = NaN
                THEN Xc.rows[i][e.var1] = Lookup(e.modes, Xc.rows[i][e.var2])
                ELSE Xc.rows[i][e.var1] = Lookup(e.modes, X_pre.rows[i][e.var2])

\* C2 as stated: the driver value used is always the value D had in the input.
C2_SinglePass ==
    TransformReturned =>
        \A k \in 1..Len(all_modes_) : \A i \in MissingTargets(k) :
            Xc.rows[i][all_modes_[k].var1]
               = Lookup(all_modes_[k].modes, X_pre.rows[i][all_modes_[k].var2])

\* A row whose driver entry was missing in the input and was filled earlier in
\* the call, and whose target got a value that the input's driver value does
\* not give.
C2_Witness ==
    /\ TransformReturned
    /\ \E k \in 1..Len(all_modes_) : \E i \in MissingTargets(k) :
          LET e == all_modes_[k]
          IN  /\ DriverWasTarget(k)
              /\ X_pre.rows[i][e.var2] = NaN
              /\ Xc.rows[i][e.var2] # NaN
              /\ Xc.rows[i][e.var1] # Lookup(e.modes, NaN)

----------------------------------------------------------------------------
\* C3: the attributes of a fitted imputer are those the most recent fit that
\* returned computes from its frame alone, after every fit and every
\* transform; an imputer that was never fitted has none.
C3_StateIsLastFit ==
    IF fitted THEN Self = FitState(fit_X, cols_to_ignore)
    ELSE Self = [related_vars_ |-> <<>>, all_modes_ |-> <<>>]

\* A transform that imputed, after a second fit that changed the attributes.
C3_Witness ==
    /\ TransformReturned
    /\ refitted
    /\ Xc # X_pre

----------------------------------------------------------------------------
\* C4: when transform has returned, the caller's frame equals what it was
\* before the call: cells, columns and index.
C4_InputNotMutated ==
    TransformReturned => X = X_pre

\* A transform that imputed an entry in the frame it returned.
C4_Witness ==
    /\ TransformReturned
    /\ \E i \in 1..NRows(X_pre) : \E c \in Range(X_pre.columns) :
          X_pre.rows[i][c] = NaN /\ Xc.rows[i][c] # NaN

----------------------------------------------------------------------------
Targets == {all_modes_[k].var1 : k \in 1..Len(all_modes_)}

\* C5: transform changes only missing entries of target columns: a present
\* entry keeps its value, a column that is no target is equal in input and
\* output, and an input without a missing target entry is returned equal.
C5_OnlyMissingTargetsChange ==
    TransformReturned =>
        /\ NRows(Xc) = NRows(X_pre)
        /\ \A i \in 1..NRows(X_pre) : \A c \in Range(X_pre.columns) :
              (X_pre.rows[i][c] # NaN \/ c \notin Targets)
                 => Xc.rows[i][c] = X_pre.rows[i][c]
        /\ (\A i \in 1..NRows(X_pre) : \A c \in Targets : X_pre.rows[i][c] # NaN)
              => Xc = X_pre

\* A transform that filled a target entry of a row whose target columns hold
\* present entries too, and left a missing entry of a column that is no target.
C5_Witness ==
    /\ TransformReturned
    /\ \E i \in 1..NRows(X_pre) :
          /\ \E c \in Targets : X_pre.rows[i][c] = NaN /\ Xc.rows[i][c] # NaN
          /\ \E c \in Targets : X_pre.rows[i][c] # NaN
          /\ \E c \in Range(X_pre.columns) \ Targets : X_pre.rows[i][c] = NaN

----------------------------------------------------------------------------
\* C6: the frame transform returns has the columns of the input in the same
\* order, as many rows, the same index in the same order, every row in its
\* place, and no Mode_ column.
C6_ShapeAndOrderKept ==
    TransformReturned =>
        /\ Xc.columns = X_pre.columns
        /\ NRows(Xc) = NRows(X_pre)
        /\ Xc.index = X_pre.index
        /\ \A i \in 1..NRows(Xc) :
              /\ DOMAIN Xc.rows[i] = Range(X_pre.columns)
              /\ i <= NRows(X_pre) =>
                    \A c \in Range(X_pre.columns) :
                       X_pre.rows[i][c] # NaN => Xc.rows[i][c] = X_pre.rows[i][c]

\* A transform, by three pairs, of a frame of several different rows whose
\* index is not 0..n-1, in which the join found a value for one row and a
\* missing value for another.
C6_Witness ==
    /\ TransformReturned
    /\ NRows(X_pre) > 1
    /\ X_pre.rows[1] # X_pre.rows[2]
    /\ X_pre.index # [i \in 1..NRows(X_pre) |-> i - 1]
    /\ Len(all_modes_) > 2
    /\ \E k \in 1..Len(all_modes_) : \E i \in 1..NRows(X_pre) :
          Lookup(all_modes_[k].modes, DriverAtLookup(k, i)) = NaN
    /\ \E k \in 1..Len(all_modes_) : \E i \in MissingTargets(k) :
          Xc.rows[i][all_modes_[k].var1] # NaN

----------------------------------------------------------------------------
\* C10 as amended: missing is a driver value of its own.  fit stores a ModeMap
\* entry for the missing driver value exactly when a fit row misses the driver,
\* and transform fills a row whose target is missing and whose driver is
\* missing when the pair is applied (missing in the input and not filled
\* earlier in the same call) with the mode of the target among the fit rows
\* that miss the driver, leaving it missing only when no fit row misses the
\* driver and has the target.
C10_MissingDriverIsAKey ==
    /\ fitted =>
          \A k \in 1..Len(all_modes_) :
             HasKey(all_modes_[k].modes, NaN) <=> FitRowsWith(all_modes_[k].var2, NaN) # {}
    /\ TransformReturned =>
          \A k \in 1..Len(all_modes_) : \A i \in MissingTargets(k) :
             LET e == all_modes_[k]
             IN  DriverAtLookup(k, i) = NaN =>
                    IF FitModes(e.var1, e.var2, NaN) = {}
                    THEN Xc.rows[i][e.var1] = NaN
                    ELSE Xc.rows[i][e.var1] \in FitModes(e.var1, e.var2, NaN)

\* C10 as stated: every row whose target and driver are both missing in the
\* input is filled with the mode among the fit rows that miss the driver.
C10_MissingDriverInInput ==
    /\ fitted =>
          \A k \in 1..Len(all_modes_) :
             HasKey(all_modes_[k].modes, NaN) <=> FitRowsWith(all_modes_[k].var2, NaN) # {}
    /\ TransformReturned =>
          \A k \in 1..Len(all_modes_) : \A i \in MissingTargets(k) :
             LET e == all_modes_[k]
             IN  DriverInInput(k, i) = NaN =>
                    IF FitModes(e.var1, e.var2, NaN) = {}
                    THEN Xc.rows[i][e.var1] = NaN
                    ELSE Xc.rows[i][e.var1] \in FitModes(e.var1, e.var2, NaN)

\* A row whose target and driver were both missing when the pair was applied
\* and whose target was filled from the entry of the missing driver value.
C10_Witness ==
    /\ TransformReturned
    /\ \E k \in 1..Len(all_modes_) : \E i \in MissingTargets(k) :
          /\ DriverAtLookup(k, i) = NaN
          /\ Xc.rows[i][all_modes_[k].var1] # NaN

====
